---- MODULE Spec2Model ----
(***************************************************************************)
(* Views bookkeeping of the workbench: ViewDescriptorCollection,           *)
(* ContributableViewsModel and PersistentContributableViewsModel of        *)
(* src/vs/workbench/browser/parts/views/views.ts, for one view location.   *)
(*                                                                         *)
(* A view id is a number i standing for the string "v<i>"; the string      *)
(* comparison of two ids is the comparison of their numbers.  An optional  *)
(* value (order?, size?, when?) is a sequence: <<>> when undefined, <<x>>  *)
(* when present.  Array indices in events are 0-based, as in the source.   *)
(***************************************************************************)
EXTENDS Integers, Sequences, FiniteSets, TLC

MaxSteps == 3
MaxSize == 1

Keys == {1, 2, 3}
Sizes == 1..MaxSize

(***************************************************************************)
(* The view descriptors contributed to the location.                       *)
(*   v1  order 2, no `when`                                                *)
(*   v2  order 1, when: k1 && k2, visibility cannot be toggled             *)
(*   v3  no order, when: k1 && !k3                                         *)
(***************************************************************************)
Ids == {1, 2, 3}

DeclaredOrder(id) ==
    CASE id = 1 -> <<2>>
      [] id = 2 -> <<1>>
      [] OTHER -> <<>>

When(id) ==
    CASE id = 1 -> <<>>
      [] id = 2 -> <<[has |-> <<1, 2>>, hasNot |-> <<>>]>>
      [] OTHER -> <<[has |-> <<1>>, hasNot |-> <<3>>]>>

CanToggleVisibility(id) == id # 2

Range(s) == {s[i] : i \in DOMAIN s}

\* ContextKeyExpr.keys(): the keys an expression refers to
ExprKeys(expr) == expr.has \o expr.hasNot

\* IContextKeyService.contextMatchesRules over the context `ctx` (the keys that are set)
contextMatchesRules(expr, ctx) ==
    /\ Range(expr.has) \subseteq ctx
    /\ Range(expr.hasNot) \cap ctx = {}

\* IContextKeyChangeEvent.affectsSome(keys) of an event that changed `changed`
affectsSome(changed, keySet) == \E k \in changed : k \in keySet

(***************************************************************************)
(* CounterSet: a Map from value to a positive count                        *)
(***************************************************************************)
CounterSetGet(map, value) == IF value \in DOMAIN map THEN map[value] ELSE 0

CounterSetAdd(map, value) ==
    [k \in DOMAIN map \cup {value} |->
        IF k = value THEN CounterSetGet(map, value) + 1 ELSE map[k]]

\* mutant: delete drops the entry whatever its count
CounterSetDeleteEntry(map, value) == [k \in DOMAIN map \ {value} |-> map[k]]

CounterSetDelete(map, value) ==
    LET counter == CounterSetGet(map, value) IN
    IF counter = 0 THEN map
    ELSE IF counter - 1 = 0
         THEN [k \in DOMAIN map \ {value} |-> map[k]]
         ELSE [map EXCEPT ![value] = counter - 1]

CounterSetDeleteResult(map, value) == CounterSetGet(map, value) # 0

CounterSetHas(map, value) == value \in DOMAIN map

RECURSIVE AddAll(_, _)
AddAll(map, keys) ==
    IF keys = <<>> THEN map ELSE AddAll(CounterSetAdd(map, Head(keys)), Tail(keys))

RECURSIVE DeleteAll(_, _)
DeleteAll(map, keys) ==
    IF keys = <<>> THEN map ELSE DeleteAll(CounterSetDelete(map, Head(keys)), Tail(keys))

(***************************************************************************)
(* ViewDescriptorCollection                                                *)
(***************************************************************************)
isViewDescriptorActive(id, ctx) ==
    When(id) = <<>> \/ contextMatchesRules(When(id)[1], ctx)

\* arrays.firstIndex on the items, 0-based, -1 when absent
RECURSIVE FirstItemIndex(_, _, _)
FirstItemIndex(its, id, from) ==
    IF from > Len(its) THEN -1
    ELSE IF its[from].id = id THEN from - 1
    ELSE FirstItemIndex(its, id, from + 1)

RemoveAt(s, i) == SubSeq(s, 1, i) \o SubSeq(s, i + 2, Len(s))

\* get viewDescriptors(): the descriptors of the active items, in stored order
CollectionViewDescriptors(its) ==
    LET act == SelectSeq(its, LAMBDA i : i.active)
    IN [n \in 1..Len(act) |-> act[n].id]

\* mutant: the signal is sent after every batch
FireCountAlways(fireChangeEvent) == 1

\* the changed signals a handler sends after its loop (views.ts:118-120, 147-149, 165-167)
FireCount(fireChangeEvent) == IF fireChangeEvent THEN 1 ELSE 0

RECURSIVE onViewsRegistered(_, _, _, _, _)
onViewsRegistered(its, keys, fire, batch, ctx) ==
    IF batch = <<>> THEN [items |-> its, contextKeys |-> keys, fires |-> FireCount(fire)]
    ELSE LET id == Head(batch)
             item == [id |-> id, active |-> isViewDescriptorActive(id, ctx)]
             keys1 == IF When(id) # <<>> THEN AddAll(keys, ExprKeys(When(id)[1])) ELSE keys
         IN onViewsRegistered(Append(its, item), keys1, fire \/ item.active, Tail(batch), ctx)

\* mutant: the keys of a descriptor are released whether or not an item holds it
RECURSIVE onViewsDeregisteredReleasesAll(_, _, _, _)
onViewsDeregisteredReleasesAll(its, keys, fire, batch) ==
    IF batch = <<>> THEN [items |-> its, contextKeys |-> keys, fires |-> FireCount(fire)]
    ELSE LET id == Head(batch)
             index == FirstItemIndex(its, id, 1)
             keys1 == IF When(id) # <<>>
                      THEN DeleteAll(keys, ExprKeys(When(id)[1])) ELSE keys
         IN IF index = -1 THEN onViewsDeregisteredReleasesAll(its, keys1, fire, Tail(batch))
            ELSE onViewsDeregisteredReleasesAll(RemoveAt(its, index), keys1,
                                                fire \/ its[index + 1].active, Tail(batch))

RECURSIVE onViewsDeregistered(_, _, _, _)
onViewsDeregistered(its, keys, fire, batch) ==
    IF batch = <<>> THEN [items |-> its, contextKeys |-> keys, fires |-> FireCount(fire)]
    ELSE LET id == Head(batch)
             index == FirstItemIndex(its, id, 1)
         IN IF index = -1 THEN onViewsDeregistered(its, keys, fire, Tail(batch))
            ELSE LET item == its[index + 1]
                     keys1 == IF When(id) # <<>>
                              THEN DeleteAll(keys, ExprKeys(When(id)[1])) ELSE keys
                 IN onViewsDeregistered(RemoveAt(its, index), keys1,
                                        fire \/ item.active, Tail(batch))

\* mutant: the signal is sent but the active flags are not stored
onContextChangedStale(its, ctx) ==
    [items |-> its,
     fires |-> IF \E n \in 1..Len(its) :
                     its[n].active # isViewDescriptorActive(its[n].id, ctx) THEN 1 ELSE 0]

onContextChanged(its, ctx) ==
    [items |-> [n \in 1..Len(its) |->
                  [id |-> its[n].id, active |-> isViewDescriptorActive(its[n].id, ctx)]],
     fires |-> FireCount(\E n \in 1..Len(its) :
                  its[n].active # isViewDescriptorActive(its[n].id, ctx))]

(***************************************************************************)
(* ContributableViewsModel                                                 *)
(***************************************************************************)
\* the IViewState a reconcile pass gives a descriptor that has none
DefaultViewState == [visible |-> TRUE, collapsed |-> FALSE, order |-> <<>>, size |-> <<>>]

\* get visibleViewDescriptors()
VisibleOf(list, states) == SelectSeq(list, LAMBDA v : states[v].visible)

\* the order compareViewDescriptors ranks a descriptor by: <<n>>, or <<>> for +Infinity
EffectiveOrder(id, states) ==
    LET stateOrder == IF id \in DOMAIN states THEN states[id].order ELSE <<>>
    IN IF stateOrder # <<>> THEN stateOrder ELSE DeclaredOrder(id)

\* mutant: equal orders compare equal, the ids are not looked at
compareOrdersNoTie(orderA, a, orderB, b) ==
    IF orderA # orderB
    THEN IF orderA = <<>> THEN 1
         ELSE IF orderB = <<>> THEN -1
         ELSE orderA[1] - orderB[1]
    ELSE 0

\* the comparison of two effective orders, then of the ids (views.ts:334-342);
\* orderA - orderB, an infinite difference given by its sign
compareOrders(orderA, a, orderB, b) ==
    IF orderA # orderB
    THEN IF orderA = <<>> THEN 1
         ELSE IF orderB = <<>> THEN -1
         ELSE orderA[1] - orderB[1]
    ELSE IF a = b THEN 0
    ELSE IF a < b THEN -1 ELSE 1

compareViewDescriptors(a, b, states) ==
    compareOrders(EffectiveOrder(a, states), a, EffectiveOrder(b, states), b)

\* Array.prototype.sort under compareViewDescriptors
RECURSIVE InsertSorted(_, _, _)
InsertSorted(sorted, id, states) ==
    IF sorted = <<>> THEN <<id>>
    ELSE IF compareViewDescriptors(id, Head(sorted), states) < 0 THEN <<id>> \o sorted
    ELSE <<Head(sorted)>> \o InsertSorted(Tail(sorted), id, states)

\* mutant: the incoming descriptors are left in the order the collection holds them
SortViewDescriptorsNot(list, states) == list

RECURSIVE SortViewDescriptors(_, _)
SortViewDescriptors(list, states) ==
    IF list = <<>> THEN <<>>
    ELSE InsertSorted(SortViewDescriptors(Tail(list), states), Head(list), states)

\* arrays.firstIndex of an id in a list, 0-based, -1 when absent
RECURSIVE FirstIndex(_, _, _)
FirstIndex(list, id, from) ==
    IF from > Len(list) THEN -1
    ELSE IF list[from] = id THEN from - 1
    ELSE FirstIndex(list, id, from + 1)

\* mutant: a descriptor is found when the state map knows its id
findInStates(list, states, id) ==
    [found |-> id \in DOMAIN states, index |-> FirstIndex(list, id, 1),
     visibleIndex |-> Len(VisibleOf(SubSeq(list, 1, FirstIndex(list, id, 1)), states))]

\* isVisible(id), isCollapsed(id): the value, or a throw of 'Unknown view <id>'
isVisible(states, id) ==
    IF id \notin DOMAIN states THEN [threw |-> TRUE, value |-> <<>>]
    ELSE [threw |-> FALSE, value |-> <<states[id].visible>>]

isCollapsed(states, id) ==
    IF id \notin DOMAIN states THEN [threw |-> TRUE, value |-> <<>>]
    ELSE [threw |-> FALSE, value |-> <<states[id].collapsed>>]

\* mutant: a state without a size counts as unknown
getSizeStrict(states, id) ==
    IF id \notin DOMAIN states \/ states[id].size = <<>> THEN [threw |-> TRUE, value |-> <<>>]
    ELSE [threw |-> FALSE, value |-> <<states[id].size>>]

\* getSize(id): the size (a number or undefined), or a throw of 'Unknown view <id>'
getSize(states, id) ==
    IF id \notin DOMAIN states THEN [threw |-> TRUE, value |-> <<>>]
    ELSE [threw |-> FALSE, value |-> <<states[id].size>>]

\* mutant: the visible index is the raw index
findRaw(list, states, id) ==
    [found |-> FirstIndex(list, id, 1) # -1, index |-> FirstIndex(list, id, 1),
     visibleIndex |-> FirstIndex(list, id, 1)]

\* find(id): the raw index and the number of visible descriptors before it
RECURSIVE FindLoop(_, _, _, _, _)
FindLoop(list, states, id, i, visibleIndex) ==
    IF i >= Len(list) THEN [found |-> FALSE, index |-> -1, visibleIndex |-> -1]
    ELSE IF list[i + 1] = id
         THEN [found |-> TRUE, index |-> i, visibleIndex |-> visibleIndex]
    ELSE FindLoop(list, states, id, i + 1,
                  IF states[list[i + 1]].visible THEN visibleIndex + 1 ELSE visibleIndex)

find(list, states, id) == FindLoop(list, states, id, 0, 0)

\* arrays.sortedDiff: pushSplice merges a splice that starts where the latest one ends
pushSplice(result, start, deleteCount, toInsert) ==
    IF deleteCount = 0 /\ toInsert = <<>> THEN result
    ELSE IF result # <<>> /\ result[Len(result)].start + result[Len(result)].deleteCount = start
         THEN [result EXCEPT ![Len(result)] =
                  [start |-> @.start, deleteCount |-> @.deleteCount + deleteCount,
                   toInsert |-> @.toInsert \o toInsert]]
    ELSE Append(result, [start |-> start, deleteCount |-> deleteCount, toInsert |-> toInsert])

RECURSIVE SortedDiffLoop(_, _, _, _, _, _)
SortedDiffLoop(before, after, states, beforeIdx, afterIdx, result) ==
    IF beforeIdx = Len(before)
    THEN pushSplice(result, beforeIdx, 0, SubSeq(after, afterIdx + 1, Len(after)))
    ELSE IF afterIdx = Len(after)
    THEN pushSplice(result, beforeIdx, Len(before) - beforeIdx, <<>>)
    ELSE LET n == compareViewDescriptors(before[beforeIdx + 1], after[afterIdx + 1], states)
         IN IF n = 0
            THEN SortedDiffLoop(before, after, states, beforeIdx + 1, afterIdx + 1, result)
            ELSE IF n < 0
            THEN SortedDiffLoop(before, after, states, beforeIdx + 1, afterIdx,
                                pushSplice(result, beforeIdx, 1, <<>>))
            ELSE SortedDiffLoop(before, after, states, beforeIdx, afterIdx + 1,
                                pushSplice(result, beforeIdx, 0, <<after[afterIdx + 1]>>))

sortedDiff(before, after, states) == SortedDiffLoop(before, after, states, 0, 0, <<>>)

Reverse(s) == [i \in 1..Len(s) |-> s[Len(s) + 1 - i]]

AddEvent(index, id, state) ==
    [type |-> "add", index |-> index, id |-> id, size |-> state.size, collapsed |-> state.collapsed]

RemoveEvent(index, id) == [type |-> "remove", index |-> index, id |-> id]

\* the index a splice's events start at (views.ts:370-371)
SpliceStartIndex(list, states, splice) ==
    IF splice.start < Len(list)
    THEN find(list, states, list[splice.start + 1]).visibleIndex
    ELSE Len(list)

\* mutant: a remove event for every deleted descriptor, hidden or not
RECURSIVE SpliceRemovesAll(_, _, _, _, _)
SpliceRemovesAll(list, states, splice, i, startIndex) ==
    IF i >= splice.deleteCount THEN <<>>
    ELSE <<RemoveEvent(startIndex, list[splice.start + i + 1])>>
         \o SpliceRemovesAll(list, states, splice, i + 1, startIndex)

\* the remove events of one splice (views.ts:373-380)
RECURSIVE SpliceRemoves(_, _, _, _, _)
SpliceRemoves(list, states, splice, i, startIndex) ==
    IF i >= splice.deleteCount THEN <<>>
    ELSE LET id == list[splice.start + i + 1]
         IN (IF states[id].visible THEN <<RemoveEvent(startIndex, id)>> ELSE <<>>)
            \o SpliceRemoves(list, states, splice, i + 1, startIndex)

\* the add events of one splice (views.ts:382-389)
RECURSIVE SpliceAdds(_, _, _)
SpliceAdds(toInsert, states, startIndex) ==
    IF toInsert = <<>> THEN <<>>
    ELSE LET id == Head(toInsert)
         IN IF states[id].visible
            THEN <<AddEvent(startIndex, id, states[id])>>
                 \o SpliceAdds(Tail(toInsert), states, startIndex + 1)
            ELSE SpliceAdds(Tail(toInsert), states, startIndex)

RECURSIVE SpliceEvents(_, _, _)
SpliceEvents(list, states, splices) ==
    IF splices = <<>> THEN <<>>
    ELSE LET splice == Head(splices)
             startIndex == SpliceStartIndex(list, states, splice)
         IN SpliceRemoves(list, states, splice, 0, startIndex)
            \o SpliceAdds(splice.toInsert, states, startIndex)
            \o SpliceEvents(list, states, Tail(splices))

\* mutant: every incoming descriptor gets the default state
WithDefaultStatesReset(states, incoming) ==
    [id \in DOMAIN states \cup Range(incoming) |->
        IF id \in DOMAIN states /\ id \notin Range(incoming)
        THEN states[id] ELSE DefaultViewState]

\* the states after every incoming descriptor lacking one got the default (views.ts:354-361)
WithDefaultStates(states, incoming) ==
    [id \in DOMAIN states \cup Range(incoming) |->
        IF id \in DOMAIN states THEN states[id] ELSE DefaultViewState]

\* onDidChangeViewDescriptors(viewDescriptors): one reconcile pass
onDidChangeViewDescriptors(list, states, incoming) ==
    LET sorted == SortViewDescriptors(incoming, states)
        states1 == WithDefaultStates(states, sorted)
        splices == Reverse(sortedDiff(list, sorted, states1))
    IN [viewDescriptors |-> sorted,
        viewStates |-> states1,
        events |-> SpliceEvents(list, states1, splices)]

\* arrays.move: array.splice(to, 0, array.splice(from, 1)[0]), for indices in the array
ArrayMove(list, from, to) ==
    LET removed == RemoveAt(list, from)
    IN SubSeq(removed, 1, to) \o <<list[from + 1]>> \o SubSeq(removed, to + 1, Len(removed))

\* mutant: `from` is put in one place after the index of `to`
MoveListOffByOne(list, from, to) ==
    LET toIndex == FirstIndex(list, to, 1)
    IN ArrayMove(list, FirstIndex(list, from, 1),
                 IF toIndex + 1 < Len(list) THEN toIndex + 1 ELSE toIndex)

\* the list after move(from, to) relocated `from` (views.ts:286-292)
MoveList(list, from, to) ==
    ArrayMove(list, FirstIndex(list, from, 1), FirstIndex(list, to, 1))

\* mutant: move leaves the state orders as they are
RenumberedNot(list, states) == states

\* the states after move renumbered every listed descriptor (views.ts:294-297)
Renumbered(list, states) ==
    [id \in DOMAIN states |->
        IF FirstIndex(list, id, 1) # -1
        THEN [states[id] EXCEPT !.order = <<FirstIndex(list, id, 1)>>]
        ELSE states[id]]

(***************************************************************************)
(* PersistentContributableViewsModel: the stored form of the state map     *)
(***************************************************************************)
\* mutant: a falsy order (0) is left out
StateToJsonFalsy(state) ==
    [k \in {"visible", "collapsed"}
           \cup (IF state.order # <<>> /\ state.order # <<0>> THEN {"order"} ELSE {})
           \cup (IF state.size # <<>> THEN {"size"} ELSE {}) |->
        CASE k = "visible" -> state.visible
          [] k = "collapsed" -> state.collapsed
          [] k = "order" -> state.order[1]
          [] OTHER -> state.size[1]]

\* JSON.stringify of one IViewState: an object without its undefined properties
StateToJson(state) ==
    [k \in {"visible", "collapsed"}
           \cup (IF state.order # <<>> THEN {"order"} ELSE {})
           \cup (IF state.size # <<>> THEN {"size"} ELSE {}) |->
        CASE k = "visible" -> state.visible
          [] k = "collapsed" -> state.collapsed
          [] k = "order" -> state.order[1]
          [] OTHER -> state.size[1]]

\* the IViewState JSON.parse gives back
JsonToState(obj) ==
    [visible |-> obj.visible,
     collapsed |-> obj.collapsed,
     order |-> IF "order" \in DOMAIN obj THEN <<obj.order>> ELSE <<>>,
     size |-> IF "size" \in DOMAIN obj THEN <<obj.size>> ELSE <<>>]

\* the ids of a set in ascending order
RECURSIVE Ascending(_)
Ascending(S) ==
    IF S = {} THEN <<>>
    ELSE LET m == CHOOSE x \in S : \A y \in S : x <= y
         IN <<m>> \o Ascending(S \ {m})

\* saveViewsStates: the array of {id, state} written to the store (views.ts:431-433)
Serialize(states) ==
    LET ids == Ascending(DOMAIN states)
    IN [n \in 1..Len(ids) |-> [id |-> ids[n], state |-> StateToJson(states[ids[n]])]]

\* the constructor's state map from the stored array (views.ts:416-421)
RECURSIVE Deserialize(_, _)
Deserialize(raw, states) ==
    IF raw = <<>> THEN states
    ELSE Deserialize(Tail(raw),
            [id \in DOMAIN states \cup {Head(raw).id} |->
                IF id = Head(raw).id THEN JsonToState(Head(raw).state) ELSE states[id]])

\* the store scope of a workbench state (views.ts:414, 435)
ScopeOf(wbState) == IF wbState # "EMPTY" THEN "WORKSPACE" ELSE "GLOBAL"

SaveScope(wbState) == ScopeOf(wbState)

WorkbenchStates == {"EMPTY", "FOLDER"}
Scopes == {"GLOBAL", "WORKSPACE"}

\* the view locations: the three built-in ones and the one of a contributed container `c`
ViewLocations == {"Explorer", "Debug", "SCM", "workbench.view.extension.c"}

\* a ViewsRegistry without views
NoViews == [location \in ViewLocations |-> <<>>]

(***************************************************************************)
(* State                                                                   *)
(***************************************************************************)
VARIABLES
    registered,       \* ViewsRegistry: the ids registered for the location, in order
    context,          \* the context keys that are set
    workbenchState,   \* IWorkspaceContextService.getWorkbenchState()
    storage,          \* IStorageService: scope -> value stored under viewletStateStorageId
    items,            \* ViewDescriptorCollection.items
    contextKeys,      \* ViewDescriptorCollection.contextKeys (the CounterSet's map)
    viewDescriptors,  \* ContributableViewsModel.viewDescriptors
    viewStates,       \* ContributableViewsModel.viewStates
    fired,            \* changed signals the collection sent in the last operation
    events,           \* onDidAdd/onDidRemove/onDidMove events of the last operation
    lastOp,           \* the last operation and whether it threw
    steps,            \* operations so far
    disposed,         \* the model was disposed: its subscriptions are released
    readScope,        \* the storage scope the constructor read the states from
    resourceCommentThreads,  \* CommentsModel.resourceCommentThreads
    views             \* ViewsRegistry: location -> the ids of the views registered in it

vars == <<registered, context, workbenchState, storage, items, contextKeys,
          viewDescriptors, viewStates, fired, events, lastOp, steps,
          disposed, readScope, resourceCommentThreads, views>>

Op(name, threw) == [op |-> name, threw |-> threw]

\* the non-empty sequences of distinct elements of S
Batches(S) ==
    {b \in UNION {[1..n -> S] : n \in 1..Cardinality(S)} :
        \A i, j \in DOMAIN b : i # j => b[i] # b[j]}

\* the model's listener on the collection's changed signal (views.ts:221)
RECURSIVE OnDidChange(_, _, _, _, _)
OnDidChange(fires, list, states, incoming, evs) ==
    IF fires = 0 THEN [viewDescriptors |-> list, viewStates |-> states, events |-> evs]
    ELSE LET r == onDidChangeViewDescriptors(list, states, incoming)
         IN OnDidChange(fires - 1, r.viewDescriptors, r.viewStates, incoming, evs \o r.events)

\* new PersistentContributableViewsModel(...): views.ts:407-428, 213-223, 79-94
Constructed(reg, ctx, wbState, store) ==
    LET states0 == Deserialize(store[ScopeOf(wbState)], <<>>)
        coll == onViewsRegistered(<<>>, <<>>, FALSE, reg, ctx)
        r == onDidChangeViewDescriptors(<<>>, states0, CollectionViewDescriptors(coll.items))
    IN [items |-> coll.items, contextKeys |-> coll.contextKeys, fires |-> coll.fires,
        viewDescriptors |-> r.viewDescriptors, viewStates |-> r.viewStates,
        events |-> r.events]

\* the model right after construction, for any registry content and context, on an empty store
Init ==
    /\ registered \in Batches(Ids) \cup {<<>>}
    /\ context \in SUBSET Keys
    /\ workbenchState = "FOLDER"
    /\ storage = [s \in Scopes |-> <<>>]
    /\ LET c == Constructed(registered, context, workbenchState, storage)
       IN /\ items = c.items
          /\ contextKeys = c.contextKeys
          /\ viewDescriptors = c.viewDescriptors
          /\ viewStates = c.viewStates
          /\ fired = c.fires
          /\ events = c.events
    /\ lastOp = Op("construct", FALSE)
    /\ steps = 0
    /\ disposed = FALSE
    /\ readScope = ScopeOf(workbenchState)
    /\ resourceCommentThreads = <<>>
    /\ views = NoViews

(***************************************************************************)
(* Operations                                                              *)
(***************************************************************************)
Tick == steps < MaxSteps /\ steps' = steps + 1

\* an event of the registry, the context key service or the workspace service
EnvironmentEvent == Tick /\ UNCHANGED <<disposed, readScope, resourceCommentThreads, views>>

\* a call of a method of the model; a disposed model is not called any more
ModelCall == EnvironmentEvent /\ ~disposed

\* Disposable.dispose() released the listener: the handler does not run
NotHandled == [items |-> items, contextKeys |-> contextKeys, fires |-> 0]

\* the collection handled a batch or a context change; the model reconciles on its signal
CollectionChanged(res) ==
    LET r == OnDidChange(res.fires, viewDescriptors, viewStates,
                         CollectionViewDescriptors(res.items), <<>>)
    IN /\ items' = res.items
       /\ fired' = res.fires
       /\ viewDescriptors' = r.viewDescriptors
       /\ viewStates' = r.viewStates
       /\ events' = r.events

\* ViewsRegistry.registerViews(batch) -> onViewsRegistered
RegisterViewsOp(batch) ==
    LET res == IF disposed THEN NotHandled
               ELSE onViewsRegistered(items, contextKeys, FALSE, batch, context)
    IN /\ registered' = registered \o batch
       /\ contextKeys' = res.contextKeys
       /\ CollectionChanged(res)
       /\ lastOp' = Op("register", FALSE)
       /\ UNCHANGED <<context, workbenchState, storage>>

RegisterViews == EnvironmentEvent /\ \E batch \in Batches(Ids \ Range(registered)) : RegisterViewsOp(batch)

\* ViewsRegistry.deregisterViews -> onViewsDeregistered; the event may name ids not held
DeregisterViewsOp(batch) ==
    LET res == IF disposed THEN NotHandled
               ELSE onViewsDeregistered(items, contextKeys, FALSE, batch)
    IN /\ registered' = SelectSeq(registered, LAMBDA v : v \notin Range(batch))
       /\ contextKeys' = res.contextKeys
       /\ CollectionChanged(res)
       /\ lastOp' = Op("deregister", FALSE)
       /\ UNCHANGED <<context, workbenchState, storage>>

DeregisterViews == EnvironmentEvent /\ \E S \in SUBSET Ids \ {{}} : DeregisterViewsOp(Ascending(S))

\* IContextKeyService.onDidChangeContext, filtered by affectsSome(contextKeys) (views.ts:90-91)
ContextChangeOp(newContext) ==
    LET changed == (context \ newContext) \cup (newContext \ context)
        relevant == affectsSome(changed, DOMAIN contextKeys)
        res == IF relevant /\ ~disposed THEN onContextChanged(items, newContext)
               ELSE [items |-> items, fires |-> 0]
    IN /\ context' = newContext
       /\ CollectionChanged(res)
       /\ lastOp' = Op("context", FALSE)
       /\ UNCHANGED <<registered, workbenchState, storage, contextKeys>>

ContextChange == EnvironmentEvent /\ \E newContext \in SUBSET Keys \ {context} : ContextChangeOp(newContext)

SetVisibleOp(id, visible) ==
    LET f == find(viewDescriptors, viewStates, id)
        throws == ~f.found \/ ~CanToggleVisibility(id)
    IN /\ lastOp' = Op("setVisible", throws)
       /\ fired' = 0
       /\ IF throws \/ viewStates[id].visible = visible
          THEN /\ viewStates' = viewStates
               /\ events' = <<>>
          ELSE /\ viewStates' = [viewStates EXCEPT ![id].visible = visible]
               /\ events' = IF visible
                            THEN <<AddEvent(f.visibleIndex, id, viewStates[id])>>
                            ELSE <<RemoveEvent(f.visibleIndex, id)>>
       /\ UNCHANGED <<registered, context, workbenchState, storage, items,
                      contextKeys, viewDescriptors>>

SetVisible == ModelCall /\ \E id \in Ids, visible \in BOOLEAN : SetVisibleOp(id, visible)

SetCollapsedOp(id, collapsed) ==
    LET f == find(viewDescriptors, viewStates, id)
    IN /\ lastOp' = Op("setCollapsed", ~f.found)
       /\ fired' = 0
       /\ events' = <<>>
       /\ viewStates' = IF f.found THEN [viewStates EXCEPT ![id].collapsed = collapsed]
                        ELSE viewStates
       /\ UNCHANGED <<registered, context, workbenchState, storage, items,
                      contextKeys, viewDescriptors>>

SetCollapsed == ModelCall /\ \E id \in Ids, collapsed \in BOOLEAN : SetCollapsedOp(id, collapsed)

SetSizeOp(id, size) ==
    LET f == find(viewDescriptors, viewStates, id)
    IN /\ lastOp' = Op("setSize", ~f.found)
       /\ fired' = 0
       /\ events' = <<>>
       /\ viewStates' = IF f.found THEN [viewStates EXCEPT ![id].size = <<size>>]
                        ELSE viewStates
       /\ UNCHANGED <<registered, context, workbenchState, storage, items,
                      contextKeys, viewDescriptors>>

SetSize == ModelCall /\ \E id \in Ids, size \in Sizes : SetSizeOp(id, size)

\* mutant: the event carries the index `from` has after the move
MoveEventAfter(fromIndex, from, toIndex, to) ==
    [type |-> "move", from |-> [index |-> toIndex, id |-> from],
     to |-> [index |-> toIndex, id |-> to]]

\* the onDidMove event (views.ts:299-302)
MoveEvent(fromIndex, from, toIndex, to) ==
    [type |-> "move", from |-> [index |-> fromIndex, id |-> from],
     to |-> [index |-> toIndex, id |-> to]]

\* move(from, to), for two ids of the list
MoveOp(from, to) ==
    LET fromIndex == FirstIndex(viewDescriptors, from, 1)
        toIndex == FirstIndex(viewDescriptors, to, 1)
        moved == MoveList(viewDescriptors, from, to)
    IN /\ viewDescriptors' = moved
       /\ viewStates' = Renumbered(moved, viewStates)
       /\ events' = <<MoveEvent(fromIndex, from, toIndex, to)>>
       /\ fired' = 0
       /\ lastOp' = Op("move", FALSE)
       /\ UNCHANGED <<registered, context, workbenchState, storage, items, contextKeys>>

Move ==
    ModelCall /\ \E from \in Range(viewDescriptors), to \in Range(viewDescriptors) : MoveOp(from, to)

\* mutant: dispose releases the subscriptions without saving
DisposeSavedNothing(states, stored) == stored

\* what dispose() leaves in the store: it calls saveViewsStates() first (views.ts:440)
DisposeSaved(states, stored) == Serialize(states)

\* saveViewsStates()
SaveViewsStates ==
    /\ ModelCall
    /\ storage' = [storage EXCEPT ![SaveScope(workbenchState)] = Serialize(viewStates)]
    /\ fired' = 0
    /\ events' = <<>>
    /\ lastOp' = Op("save", FALSE)
    /\ UNCHANGED <<registered, context, workbenchState, items, contextKeys,
                   viewDescriptors, viewStates>>

\* a new PersistentContributableViewsModel on the same storage id replaces the model
Construct ==
    /\ Tick
    /\ LET c == Constructed(registered, context, workbenchState, storage)
       IN /\ items' = c.items
          /\ contextKeys' = c.contextKeys
          /\ viewDescriptors' = c.viewDescriptors
          /\ viewStates' = c.viewStates
          /\ fired' = c.fires
          /\ events' = c.events
    /\ lastOp' = Op("construct", FALSE)
    /\ disposed' = FALSE
    /\ readScope' = ScopeOf(workbenchState)
    /\ UNCHANGED <<registered, context, workbenchState, storage, resourceCommentThreads,
                   views>>

\* dispose(): saveViewsStates(), then super.dispose() releases every subscription
Dispose ==
    /\ Tick
    /\ ~disposed
    /\ storage' = [storage EXCEPT ![SaveScope(workbenchState)] = DisposeSaved(viewStates, storage[SaveScope(workbenchState)])]
    /\ disposed' = TRUE
    /\ fired' = 0
    /\ events' = <<>>
    /\ lastOp' = Op("dispose", FALSE)
    /\ UNCHANGED <<registered, context, workbenchState, items, contextKeys,
                   viewDescriptors, viewStates, readScope, resourceCommentThreads,
                   views>>

\* the workbench state changes between empty and non-empty
WorkbenchStateChange ==
    /\ EnvironmentEvent
    /\ workbenchState' \in WorkbenchStates \ {workbenchState}
    /\ fired' = 0
    /\ events' = <<>>
    /\ lastOp' = Op("workbench", FALSE)
    /\ UNCHANGED <<registered, context, storage, items, contextKeys,
                   viewDescriptors, viewStates>>

\* ContributableViewsModel over its collection
Next ==
    \/ RegisterViews
    \/ DeregisterViews
    \/ ContextChange
    \/ SetVisible
    \/ SetCollapsed
    \/ SetSize
    \/ Move

Spec == Init /\ [][Next]_vars

\* the same, with every descriptor already registered
PersistentInit == Init /\ registered = <<1, 2, 3>>

\* PersistentContributableViewsModel over a store
PersistentNext ==
    \/ RegisterViews
    \/ DeregisterViews
    \/ ContextChange
    \/ SetVisible
    \/ SetCollapsed
    \/ SetSize
    \/ Move
    \/ SaveViewsStates
    \/ Construct
    \/ WorkbenchStateChange
    \/ Dispose

PersistentSpec == PersistentInit /\ [][PersistentNext]_vars

(***************************************************************************)
(* CommentsModel                                                           *)
(***************************************************************************)
MaxCalls == 2
MaxThreads == 2

\* thread.resource: URI strings as URI.toString() gives them, in string order
Resources == {1, 2}

ThreadIds == {1, 2, 3}

\* the resource a thread is attached to: threads 1 and 2 to the first, thread 3 to the second
ResourceOf(threadId) == IF threadId = 3 THEN 2 ELSE 1

\* what a thread can hold: its comments (at least one) and its range
Contents == {[comments |-> <<1>>, range |-> 1], [comments |-> <<2, 1, 3>>, range |-> 2]}

\* the CommentThread values of the calls
CommentThreads ==
    {[threadId |-> t, resource |-> ResourceOf(t), comments |-> c.comments, range |-> c.range] :
        t \in ThreadIds, c \in Contents}

\* new CommentNode(threadId, resource, comment, range)
CommentNode(threadId, resource, comment, range) ==
    [threadId |-> threadId, resource |-> resource, comment |-> comment,
     range |-> range, replies |-> <<>>]

\* mutant: the first comment is also listed among its replies
createCommentNodeAllReplies(resource, commentThread) ==
    LET commentNodes == [n \in 1..Len(commentThread.comments) |->
                            CommentNode(commentThread.threadId, resource,
                                        commentThread.comments[n], commentThread.range)]
    IN [commentNodes[1] EXCEPT !.replies = commentNodes]

\* ResourceWithCommentThreads.createCommentNode
createCommentNode(resource, commentThread) ==
    LET commentNodes == [n \in 1..Len(commentThread.comments) |->
                            CommentNode(commentThread.threadId, resource,
                                        commentThread.comments[n], commentThread.range)]
    IN IF Len(commentNodes) > 1
       THEN [commentNodes[1] EXCEPT !.replies = SubSeq(commentNodes, 2, Len(commentNodes))]
       ELSE commentNodes[1]

\* new ResourceWithCommentThreads(resource, commentThreads)
ResourceWithCommentThreads(resource, commentThreads) ==
    [id |-> resource, resource |-> resource,
     commentThreads |-> [n \in 1..Len(commentThreads) |->
                            createCommentNode(resource, commentThreads[n])]]

\* CommentsModel._compareURIs
compareURIs(a, b) ==
    IF a.resource < b.resource THEN -1
    ELSE IF a.resource > b.resource THEN 1
    ELSE 0

\* arrays.groupBy: a stable sort under compare, then runs of equal elements
RECURSIVE InsertThread(_, _)
InsertThread(sorted, thread) ==
    IF sorted = <<>> THEN <<thread>>
    ELSE IF compareURIs(thread, Head(sorted)) < 0 THEN <<thread>> \o sorted
    ELSE <<Head(sorted)>> \o InsertThread(Tail(sorted), thread)

RECURSIVE StableSortThreads(_)
StableSortThreads(threads) ==
    IF threads = <<>> THEN <<>>
    ELSE InsertThread(StableSortThreads(SubSeq(threads, 1, Len(threads) - 1)),
                      threads[Len(threads)])

RECURSIVE GroupRuns(_, _)
GroupRuns(sorted, groups) ==
    IF sorted = <<>> THEN groups
    ELSE IF groups # <<>> /\ compareURIs(groups[Len(groups)][1], Head(sorted)) = 0
    THEN GroupRuns(Tail(sorted),
                   [groups EXCEPT ![Len(groups)] = Append(groups[Len(groups)], Head(sorted))])
    ELSE GroupRuns(Tail(sorted), Append(groups, <<Head(sorted)>>))

groupBy(threads) == GroupRuns(StableSortThreads(threads), <<>>)

\* addCommentThreads: one new entry per group, pushed after the entries there are
addCommentThreads(list, commentThreads) ==
    LET groups == groupBy(commentThreads)
    IN list \o [n \in 1..Len(groups) |->
                   ResourceWithCommentThreads(groups[n][1].resource, groups[n])]

\* setCommentThreads
setCommentThreads(commentThreads) == addCommentThreads(<<>>, commentThreads)

\* firstIndex(resourceCommentThreads, resourceData => resourceData.id === resource), 0-based
RECURSIVE FirstResourceIndex(_, _, _)
FirstResourceIndex(list, resource, from) ==
    IF from > Len(list) THEN -1
    ELSE IF list[from].id = resource THEN from - 1
    ELSE FirstResourceIndex(list, resource, from + 1)

\* firstIndex(commentThreads, commentThread => commentThread.threadId === threadId), 0-based
RECURSIVE FirstThreadIndex(_, _, _)
FirstThreadIndex(nodes, threadId, from) ==
    IF from > Len(nodes) THEN -1
    ELSE IF nodes[from].threadId = threadId THEN from - 1
    ELSE FirstThreadIndex(nodes, threadId, from + 1)

\* Array.splice(index, 1): a negative index counts from the end
SpliceOne(list, index) ==
    LET start == IF index < 0
                 THEN (IF Len(list) + index < 0 THEN 0 ELSE Len(list) + index)
                 ELSE index
    IN IF start >= Len(list) THEN list
       ELSE SubSeq(list, 1, start) \o SubSeq(list, start + 2, Len(list))

\* array[index] = node: an index that is not an element's index leaves the elements alone
AssignAt(list, index, node) ==
    IF index >= 0 /\ index < Len(list) THEN [list EXCEPT ![index + 1] = node] ELSE list

\* mutant: a resource entry stays in the list after its last thread was removed
RemoveThreadKeepsEntry(model, thread) ==
    LET matchingResourceIndex == FirstResourceIndex(model.list, thread.resource, 1)
    IN IF model.threw THEN model
       ELSE IF matchingResourceIndex = -1 THEN [model EXCEPT !.threw = TRUE]
       ELSE LET data == model.list[matchingResourceIndex + 1]
                index == FirstThreadIndex(data.commentThreads, thread.threadId, 1)
            IN [model EXCEPT !.list[matchingResourceIndex + 1].commentThreads =
                   SpliceOne(data.commentThreads, index)]

\* the removed phase for one thread; matchingResourceData is undefined when no entry
\* has the resource, and reading its commentThreads throws a TypeError
RemoveThread(model, thread) ==
    LET matchingResourceIndex == FirstResourceIndex(model.list, thread.resource, 1)
    IN IF model.threw THEN model
       ELSE IF matchingResourceIndex = -1 THEN [model EXCEPT !.threw = TRUE]
       ELSE LET data == model.list[matchingResourceIndex + 1]
                index == FirstThreadIndex(data.commentThreads, thread.threadId, 1)
                rest == SpliceOne(data.commentThreads, index)
            IN IF rest = <<>>
               THEN [model EXCEPT !.list = SpliceOne(model.list, matchingResourceIndex)]
               ELSE [model EXCEPT !.list[matchingResourceIndex + 1].commentThreads = rest]

\* the changed phase for one thread
ChangeThread(model, thread) ==
    LET matchingResourceIndex == FirstResourceIndex(model.list, thread.resource, 1)
    IN IF model.threw THEN model
       ELSE IF matchingResourceIndex = -1 THEN [model EXCEPT !.threw = TRUE]
       ELSE LET data == model.list[matchingResourceIndex + 1]
                index == FirstThreadIndex(data.commentThreads, thread.threadId, 1)
            IN [model EXCEPT !.list[matchingResourceIndex + 1].commentThreads =
                   AssignAt(data.commentThreads, index, createCommentNode(data.id, thread))]

\* event.removed.forEach(...)
RECURSIVE RemovedPhase(_, _)
RemovedPhase(model, removed) ==
    IF removed = <<>> THEN model
    ELSE RemovedPhase(RemoveThread(model, Head(removed)), Tail(removed))

\* event.changed.forEach(...)
RECURSIVE ChangedPhase(_, _)
ChangedPhase(model, changed) ==
    IF changed = <<>> THEN model
    ELSE ChangedPhase(ChangeThread(model, Head(changed)), Tail(changed))

\* this.addCommentThreads(event.added); it is not reached when a phase before it threw
AddedPhase(model, added) ==
    IF model.threw THEN model
    ELSE [model EXCEPT !.list = addCommentThreads(model.list, added)]

\* mutant: the changed threads are replaced before the removed ones are taken out
updateCommentThreadsChangedFirst(list, event) ==
    AddedPhase(RemovedPhase(ChangedPhase([list |-> list, threw |-> FALSE], event.changed),
                            event.removed),
               event.added)

\* updateCommentThreads(event): removed, then changed, then added
updateCommentThreads(list, event) ==
    AddedPhase(ChangedPhase(RemovedPhase([list |-> list, threw |-> FALSE], event.removed),
                            event.changed),
               event.added)

\* hasCommentThreads()
hasCommentThreads(list) == Len(list) # 0

\* localize('noComments', ...): the empty-state text
NoCommentsMessage == "There are no comments on this review."

\* getMessage()
getMessage(list) == IF Len(list) = 0 THEN NoCommentsMessage ELSE ""

\* the (resource, threadId) pairs of the nodes a model holds
ThreadKeys(list) ==
    UNION {{<<list[i].id, list[i].commentThreads[j].threadId>> :
               j \in 1..Len(list[i].commentThreads)} : i \in 1..Len(list)}

ThreadKey(thread) == <<thread.resource, thread.threadId>>

\* the lists of n threads of S, no two of them the same thread
ThreadListsOfLen(S, n) ==
    {l \in [1..n -> S] : \A i, j \in 1..n : i # j => ThreadKey(l[i]) # ThreadKey(l[j])}

\* the lists of at most MaxThreads threads
ThreadLists(S) == UNION {ThreadListsOfLen(S, n) : n \in 0..MaxThreads}

\* the events that respect referential integrity against a model: the removed and the
\* changed threads are threads of the model, no thread is both, and an added thread is
\* not a thread of the model unless the event removes it; an event names at least one
\* and at most MaxThreads threads
CommentThreadChangedEvents(list) ==
    LET present == {t \in CommentThreads : ThreadKey(t) \in ThreadKeys(list)}
        refs == {t \in present : t.range = 1}
        sizes == {k \in (0..MaxThreads) \X (0..MaxThreads) \X (0..MaxThreads) :
                     k[1] + k[2] + k[3] \in 1..MaxThreads}
        all == UNION {{[removed |-> r, changed |-> c, added |-> a] :
                          r \in ThreadListsOfLen(refs, k[1]),
                          c \in ThreadListsOfLen(present, k[2]),
                          a \in ThreadListsOfLen(CommentThreads, k[3])} : k \in sizes}
    IN {e \in all :
           /\ \A i \in DOMAIN e.changed, j \in DOMAIN e.removed :
                 ThreadKey(e.changed[i]) # ThreadKey(e.removed[j])
           /\ \A i \in DOMAIN e.added :
                 \/ ThreadKey(e.added[i]) \notin ThreadKeys(list)
                 \/ \E j \in DOMAIN e.removed : ThreadKey(e.added[i]) = ThreadKey(e.removed[j])}

\* the last call of the CommentsModel, whether it threw, and its argument
CommentsOp(name, threw, input) == [op |-> name, threw |-> threw, input |-> input]

\* a model after construction and one setCommentThreads call; no views are registered
CommentsInit ==
    /\ registered = <<>>
    /\ context = {}
    /\ workbenchState = "FOLDER"
    /\ storage = [s \in Scopes |-> <<>>]
    /\ items = <<>>
    /\ contextKeys = <<>>
    /\ viewDescriptors = <<>>
    /\ viewStates = <<>>
    /\ fired = 0
    /\ events = <<>>
    /\ disposed = FALSE
    /\ readScope = ScopeOf(workbenchState)
    /\ views = NoViews
    /\ steps = 0
    /\ \E l \in ThreadLists(CommentThreads) :
          /\ resourceCommentThreads = setCommentThreads(l)
          /\ lastOp = CommentsOp("setCommentThreads", FALSE, l)

CommentsCall ==
    /\ steps < MaxCalls
    /\ steps' = steps + 1
    /\ UNCHANGED <<registered, context, workbenchState, storage, items, contextKeys,
                   viewDescriptors, viewStates, fired, events, disposed, readScope,
                   views>>

SetCommentThreadsOp(commentThreads) ==
    /\ resourceCommentThreads' = setCommentThreads(commentThreads)
    /\ lastOp' = CommentsOp("setCommentThreads", FALSE, commentThreads)

SetCommentThreads ==
    CommentsCall /\ \E l \in ThreadLists(CommentThreads) : SetCommentThreadsOp(l)

UpdateCommentThreadsOp(event) ==
    LET r == updateCommentThreads(resourceCommentThreads, event)
    IN /\ resourceCommentThreads' = r.list
       /\ lastOp' = CommentsOp("updateCommentThreads", r.threw, event)

UpdateCommentThreads ==
    CommentsCall /\ \E event \in CommentThreadChangedEvents(resourceCommentThreads) :
                        UpdateCommentThreadsOp(event)

CommentsNext ==
    \/ SetCommentThreads
    \/ UpdateCommentThreads

CommentsSpec == CommentsInit /\ [][CommentsNext]_vars

(***************************************************************************)
(* ViewsContainersExtensionHandler: the handler of the `views` extension   *)
(* point.  A contribution entry is [key, isArray, value]: the container    *)
(* key, whether the contributed value is an array, and the ids of its      *)
(* items (every item has a string id and a string name).                   *)
(***************************************************************************)
MaxItems == 3

\* the ids extensions contribute views under
ContributedIds == {1, 2}

\* the keys extensions contribute under: a built-in container, the contributed
\* container `c`, and `x`, which names no container
ContributionKeys == {"explorer", "c", "x"}

\* ViewLocation.get(id): the location of that id, undefined (<<>>) when there is none
ViewLocationGet(id) == IF id \in ViewLocations THEN <<id>> ELSE <<>>

\* getViewLocation(value)
getViewLocation(value) ==
    CASE value = "explorer" -> <<"Explorer">>
      [] value = "debug" -> <<"Debug">>
      [] value = "scm" -> <<"SCM">>
      [] OTHER -> ViewLocationGet("workbench.view.extension." \o value)

\* isValidViewDescriptors(viewDescriptors, collector)
isValidViewDescriptors(entry) == entry.isArray

\* ViewsRegistry.getViews(location)
getViews(registry, location) == registry[location]

\* ViewsRegistry.registerViews(viewDescriptors): each descriptor joins its location's views
RECURSIVE registerViews(_, _)
registerViews(registry, descriptors) ==
    IF descriptors = <<>> THEN registry
    ELSE LET d == Head(descriptors)
         IN registerViews([registry EXCEPT ![d.location] = Append(@, d.id)],
                          Tail(descriptors))

Message(severity, code, id, location) ==
    [severity |-> severity, code |-> code, id |-> id, location |-> location]

\* mutant: an item is only compared with the views registered before the entry
RECURSIVE MapItemsRegisteredOnly(_, _, _, _)
MapItemsRegisteredOnly(value, location, registeredViews, acc) ==
    IF value = <<>> THEN acc
    ELSE LET id == Head(value)
         IN IF id \in Range(registeredViews)
            THEN MapItemsRegisteredOnly(Tail(value), location, registeredViews,
                    [acc EXCEPT !.messages =
                        Append(@, Message("error", "duplicateView2", id, location))])
            ELSE MapItemsRegisteredOnly(Tail(value), location, registeredViews,
                    [acc EXCEPT !.viewIds = Append(@, id),
                                !.viewDescriptors =
                                    Append(@, [id |-> id, location |-> location])])

\* coalesce(entry.value.map(item => ...)): the descriptors of the items that pass the two
\* duplicate tests, with the ids seen so far and the collector's messages
RECURSIVE MapItems(_, _, _, _)
MapItems(value, location, registeredViews, acc) ==
    IF value = <<>> THEN acc
    ELSE LET id == Head(value)
         IN IF id \in Range(acc.viewIds)
            THEN MapItems(Tail(value), location, registeredViews,
                    [acc EXCEPT !.messages =
                        Append(@, Message("error", "duplicateView1", id, location))])
            ELSE IF id \in Range(registeredViews)
            THEN MapItems(Tail(value), location, registeredViews,
                    [acc EXCEPT !.messages =
                        Append(@, Message("error", "duplicateView2", id, location))])
            ELSE MapItems(Tail(value), location, registeredViews,
                    [acc EXCEPT !.viewIds = Append(@, id),
                                !.viewDescriptors =
                                    Append(@, [id |-> id, location |-> location])])

\* the handler's body for one entry; h = [registry, passed, messages]
HandleEntry(h, entry) ==
    IF ~isValidViewDescriptors(entry)
    THEN [h EXCEPT !.messages = Append(@, Message("error", "requirearray", 0, entry.key))]
    ELSE LET found == getViewLocation(entry.key)
             location == IF found = <<>> THEN "Explorer" ELSE found[1]
             warned == IF found = <<>>
                       THEN <<Message("warn", "ViewContainerDoesnotExist", 0, entry.key)>>
                       ELSE <<>>
             registeredViews == getViews(h.registry, location)
             m == MapItems(entry.value, location, registeredViews,
                           [viewIds |-> <<>>, viewDescriptors |-> <<>>, messages |-> <<>>])
         IN [registry |-> registerViews(h.registry, m.viewDescriptors),
             passed |-> Append(h.passed, m.viewDescriptors),
             messages |-> h.messages \o warned \o m.messages]

\* the handler over the entries of the extensions, in order
RECURSIVE HandleEntries(_, _)
HandleEntries(h, entries) ==
    IF entries = <<>> THEN h
    ELSE HandleEntries(HandleEntry(h, Head(entries)), Tail(entries))

handleAndRegisterCustomViews(registry, entries) ==
    HandleEntries([registry |-> registry, passed |-> <<>>, messages |-> <<>>], entries)

\* the entries of weight n: an array of n items, or, for n = 1, a value that is no array
EntriesOfWeight(n) ==
    {[key |-> k, isArray |-> TRUE, value |-> v] :
        k \in ContributionKeys, v \in [1..n -> ContributedIds]}
    \cup (IF n = 1
          THEN {[key |-> k, isArray |-> FALSE, value |-> <<>>] : k \in ContributionKeys}
          ELSE {})

\* the lists of entries of total weight n
RECURSIVE ContributionsOfWeight(_)
ContributionsOfWeight(n) ==
    IF n = 0 THEN {<<>>}
    ELSE UNION {{<<e>> \o rest : e \in EntriesOfWeight(w),
                                 rest \in ContributionsOfWeight(n - w)} : w \in 1..n}

\* what the extensions contribute: at least one entry, at most MaxItems items in all
Contributions == UNION {ContributionsOfWeight(n) : n \in 1..MaxItems}

\* the registries the handler can find: the views registered before the extensions
BuiltInViews ==
    {[NoViews EXCEPT !["Explorer"] = e, !["workbench.view.extension.c"] = c] :
        e \in {<<>>, <<1>>, <<2, 1>>}, c \in {<<>>, <<2>>}}

ExtensionsInit ==
    /\ registered = <<>>
    /\ context = {}
    /\ workbenchState = "FOLDER"
    /\ storage = [s \in Scopes |-> <<>>]
    /\ items = <<>>
    /\ contextKeys = <<>>
    /\ viewDescriptors = <<>>
    /\ viewStates = <<>>
    /\ fired = 0
    /\ events = <<>>
    /\ disposed = FALSE
    /\ readScope = ScopeOf(workbenchState)
    /\ resourceCommentThreads = <<>>
    /\ steps = 0
    /\ views \in BuiltInViews
    /\ lastOp = Op("builtin", FALSE)

\* the extension point calls the handler once, with the extensions' contributions
HandleContributionsOp(entries) ==
    LET h == handleAndRegisterCustomViews(views, entries)
    IN /\ views' = h.registry
       /\ lastOp' = [op |-> "contribute", threw |-> FALSE, input |-> entries,
                     passed |-> h.passed, messages |-> h.messages]

HandleContributions ==
    /\ steps = 0
    /\ steps' = 1
    /\ \E entries \in Contributions : HandleContributionsOp(entries)
    /\ UNCHANGED <<registered, context, workbenchState, storage, items, contextKeys,
                   viewDescriptors, viewStates, fired, events, disposed, readScope,
                   resourceCommentThreads>>

ExtensionsNext == HandleContributions

ExtensionsSpec == ExtensionsInit /\ [][ExtensionsNext]_vars

(***************************************************************************)
(* CounterSet on its own: contextKeys is the map of a new CounterSet,      *)
(* events the add and delete calls made so far                             *)
(***************************************************************************)
CounterSetCalled(name, value, result) ==
    [op |-> name, threw |-> FALSE, input |-> value, result |-> result]

CounterSetInit ==
    /\ registered = <<>>
    /\ context = {}
    /\ workbenchState = "FOLDER"
    /\ storage = [s \in Scopes |-> <<>>]
    /\ items = <<>>
    /\ contextKeys = <<>>
    /\ viewDescriptors = <<>>
    /\ viewStates = <<>>
    /\ fired = 0
    /\ events = <<>>
    /\ disposed = FALSE
    /\ readScope = ScopeOf(workbenchState)
    /\ resourceCommentThreads = <<>>
    /\ views = NoViews
    /\ steps = 0
    /\ lastOp = CounterSetCalled("new", 0, TRUE)

CounterSetCall ==
    /\ steps < MaxSteps
    /\ steps' = steps + 1
    /\ UNCHANGED <<registered, context, workbenchState, storage, items, viewDescriptors,
                   viewStates, fired, disposed, readScope, resourceCommentThreads, views>>

\* add(value)
CounterSetAddOp(value) ==
    /\ contextKeys' = CounterSetAdd(contextKeys, value)
    /\ events' = Append(events, [type |-> "add", value |-> value, result |-> TRUE])
    /\ lastOp' = CounterSetCalled("add", value, TRUE)

CounterSetAddCall == CounterSetCall /\ \E value \in Keys : CounterSetAddOp(value)

\* delete(value)
CounterSetDeleteOp(value) ==
    LET result == CounterSetDeleteResult(contextKeys, value)
    IN /\ contextKeys' = CounterSetDelete(contextKeys, value)
       /\ events' = Append(events, [type |-> "delete", value |-> value, result |-> result])
       /\ lastOp' = CounterSetCalled("delete", value, result)

CounterSetDeleteCall == CounterSetCall /\ \E value \in Keys : CounterSetDeleteOp(value)

\* has(value)
CounterSetHasOp(value) ==
    /\ lastOp' = CounterSetCalled("has", value, CounterSetHas(contextKeys, value))
    /\ UNCHANGED <<contextKeys, events>>

CounterSetHasCall == CounterSetCall /\ \E value \in Keys : CounterSetHasOp(value)

CounterSetNext ==
    \/ CounterSetAddCall
    \/ CounterSetDeleteCall
    \/ CounterSetHasCall

CounterSetSpec == CounterSetInit /\ [][CounterSetNext]_vars

(***************************************************************************)
(* Properties                                                              *)
(***************************************************************************)
ReconcileOps == {"register", "deregister", "context"}

\* whether a descriptor's `when` is absent or holds in the context ctx
WhenHolds(id, ctx) ==
    \/ When(id) = <<>>
    \/ /\ \A k \in Range(When(id)[1].has) : k \in ctx
       /\ \A k \in Range(When(id)[1].hasNot) : k \notin ctx

ItemIds(its) == {its[n].id : n \in 1..Len(its)}

\* a mirror of the visible list replays add/remove events one by one
RECURSIVE Replay(_, _)
Replay(mirror, evs) ==
    IF evs = <<>> THEN [ok |-> TRUE, list |-> mirror]
    ELSE LET e == Head(evs) IN
         IF e.type = "remove"
         THEN IF e.index >= 0 /\ e.index < Len(mirror)
              THEN Replay(RemoveAt(mirror, e.index), Tail(evs))
              ELSE [ok |-> FALSE, list |-> mirror]
         ELSE IF e.type = "add"
         THEN IF e.index >= 0 /\ e.index <= Len(mirror)
              THEN Replay(SubSeq(mirror, 1, e.index) \o <<e.id>>
                            \o SubSeq(mirror, e.index + 1, Len(mirror)), Tail(evs))
              ELSE [ok |-> FALSE, list |-> mirror]
         ELSE Replay(mirror, Tail(evs))

\* C1: the add and remove indices of a reconcile pass are valid insertion and removal
\* points of the visible list: a mirror of the visible list before the pass that
\* replays the events never gets an index out of range and ends as the visible list
\* after the pass.
C1_ReconcileIndicesValid ==
    [][(lastOp'.op \in ReconcileOps /\ fired' >= 1) =>
          LET m == Replay(VisibleOf(viewDescriptors, viewStates), events')
          IN m.ok /\ m.list = VisibleOf(viewDescriptors', viewStates')]_vars

\* C2: the collection's viewDescriptors are exactly the registered descriptors whose
\* `when` is absent or holds in the current context, in registration order.
C2_ActiveSetExact ==
    CollectionViewDescriptors(items) = SelectSeq(registered, LAMBDA v : WhenHolds(v, context))

\* a context change reached the collection, which now holds an inactive descriptor
\* and an active one that has a `when`
C2_Witness ==
    /\ lastOp.op = "context"
    /\ fired = 1
    /\ \E n \in 1..Len(items) : ~items[n].active
    /\ \E n \in 1..Len(items) : items[n].active /\ When(items[n].id) # <<>>

\* C3: a handled batch sends the changed signal at most once, and once iff it changed
\* the active set: a register batch iff an added descriptor is active, a deregister
\* batch iff a removed item was active, a context change iff an active flag flipped.
C3_ChangedSignalCoalesced ==
    [][/\ fired' \in {0, 1}
       /\ lastOp'.op \in ReconcileOps =>
            (fired' = 1 <=> CollectionViewDescriptors(items') # CollectionViewDescriptors(items))
       /\ lastOp'.op = "register" =>
            (fired' = 1 <=> \E v \in Range(registered') \ Range(registered) :
                                WhenHolds(v, context))
       /\ lastOp'.op = "deregister" =>
            (fired' = 1 <=> \E n \in 1..Len(items) :
                                items[n].id \notin ItemIds(items') /\ items[n].active)
       /\ lastOp'.op = "context" =>
            (fired' = 1 <=> \E n \in 1..Len(items) : items[n].active # items'[n].active)
      ]_vars

\* a register batch of inactive descriptors only was handled without a signal
C3_Witness ==
    /\ lastOp.op = "register"
    /\ fired = 0
    /\ \E n \in 1..Len(items) : ~items[n].active

\* the events of a sequence that have the given type, as the set of their ids
EventIds(evs, type) == {evs[n].id : n \in {m \in 1..Len(evs) : evs[m].type = type}}

EventCount(evs, type, id) ==
    Cardinality({n \in 1..Len(evs) : evs[n].type = type /\ evs[n].id = id})

\* a reconcile pass over the list, states and items given emits nothing and changes nothing
ReconcileIsIdle(list, states, its) ==
    LET r == onDidChangeViewDescriptors(list, states, CollectionViewDescriptors(its))
    IN r.events = <<>> /\ r.viewDescriptors = list /\ r.viewStates = states

\* C4: a reconcile pass with the active set of the previous pass emits no event, in
\* every state the operations reach; a pass emits one remove for each visible
\* descriptor that left the list, one add for each visible descriptor that entered
\* it, and nothing else.
C4_ReconcileMinimal ==
    /\ []ReconcileIsIdle(viewDescriptors, viewStates, items)
    /\ [][(lastOp'.op \in ReconcileOps /\ fired' >= 1) =>
            LET left == {v \in Range(viewDescriptors) \ Range(viewDescriptors') :
                            viewStates[v].visible}
                entered == {v \in Range(viewDescriptors') \ Range(viewDescriptors) :
                               viewStates'[v].visible}
            IN /\ \A n \in 1..Len(events') : events'[n].type \in {"add", "remove"}
               /\ EventIds(events', "remove") = left
               /\ EventIds(events', "add") = entered
               /\ \A v \in left : EventCount(events', "remove", v) = 1
               /\ \A v \in entered : EventCount(events', "add", v) = 1
               /\ Len(events') = Cardinality(left) + Cardinality(entered)
      ]_vars

\* a context change made a visible descriptor leave and another enter, next to a hidden one
C4_Witness ==
    /\ lastOp.op = "context"
    /\ EventIds(events, "remove") # {}
    /\ EventIds(events, "add") # {}
    /\ \E v \in DOMAIN viewStates : ~viewStates[v].visible

\* the number of visible descriptors before position i (1-based) of the list
VisibleBefore(list, states, i) == Cardinality({j \in 1..(i - 1) : states[list[j]].visible})

PositionOf(list, id) == CHOOSE i \in 1..Len(list) : list[i] = id

\* C5: setVisible on a listed descriptor throws when its visibility cannot be toggled;
\* else does nothing when the state is already the target; else flips state.visible and
\* emits one event, an add (with size and collapsed) or a remove, whose index is the
\* number of visible descriptors before it in the list.  After a call that did not
\* throw the state is the target, so a second call with the same value emits nothing.
C5_SetVisible ==
    [][\A id \in Range(viewDescriptors), visible \in BOOLEAN :
          SetVisibleOp(id, visible) =>
             LET before == VisibleBefore(viewDescriptors, viewStates,
                                         PositionOf(viewDescriptors, id))
             IN IF ~CanToggleVisibility(id)
                THEN lastOp'.threw /\ events' = <<>> /\ viewStates' = viewStates
                ELSE /\ ~lastOp'.threw
                     /\ viewStates'[id].visible = visible
                     /\ \A v \in DOMAIN viewStates : v # id => viewStates'[v] = viewStates[v]
                     /\ viewStates'[id] = [viewStates[id] EXCEPT !.visible = visible]
                     /\ IF viewStates[id].visible = visible
                        THEN events' = <<>>
                        ELSE events' = <<IF visible
                                         THEN [type |-> "add", index |-> before, id |-> id,
                                               size |-> viewStates[id].size,
                                               collapsed |-> viewStates[id].collapsed]
                                         ELSE [type |-> "remove", index |-> before, id |-> id]>>
      ]_vars

\* setVisible showed a descriptor that has a hidden descriptor before it in the list
C5_Witness ==
    /\ lastOp.op = "setVisible"
    /\ ~lastOp.threw
    /\ Len(events) = 1
    /\ events[1].type = "add"
    /\ events[1].index < PositionOf(viewDescriptors, events[1].id) - 1

\* the order the claim ranks a listed descriptor by: <<n>>, or <<>> for +infinity
RankOrder(id) == IF viewStates[id].order # <<>> THEN viewStates[id].order ELSE DeclaredOrder(id)

RankedBefore(a, b) ==
    \/ RankOrder(a) # <<>> /\ RankOrder(b) = <<>>
    \/ RankOrder(a) # <<>> /\ RankOrder(b) # <<>> /\ RankOrder(a)[1] < RankOrder(b)[1]
    \/ RankOrder(a) = RankOrder(b) /\ a < b

\* C6: the model's list holds exactly the active descriptors of the collection, once
\* each, every one with a state, in ascending order of (state order, else declared
\* order, else +infinity; then id) under the current states; the visible list is its
\* subsequence of the descriptors whose state is visible.
C6_ListSortedAndExact ==
    /\ Range(viewDescriptors) = Range(CollectionViewDescriptors(items))
    /\ Len(viewDescriptors) = Len(CollectionViewDescriptors(items))
    /\ Range(viewDescriptors) \subseteq DOMAIN viewStates
    /\ \A i, j \in 1..Len(viewDescriptors) :
          i < j => RankedBefore(viewDescriptors[i], viewDescriptors[j])
    /\ Range(VisibleOf(viewDescriptors, viewStates))
          = {v \in Range(viewDescriptors) : viewStates[v].visible}
    /\ \A i, j \in 1..Len(VisibleOf(viewDescriptors, viewStates)) :
          i < j => RankedBefore(VisibleOf(viewDescriptors, viewStates)[i],
                                VisibleOf(viewDescriptors, viewStates)[j])

\* a descriptor entered a list that a move had renumbered, tying with a state order
C6_Witness ==
    /\ lastOp.op \in ReconcileOps
    /\ fired = 1
    /\ Len(viewDescriptors) = 3
    /\ \E a, b \in Range(viewDescriptors) :
          a # b /\ viewStates[a].order # <<>> /\ viewStates[b].order = <<>>
                /\ RankOrder(a) = RankOrder(b)

\* C7: move(from, to) on two listed ids permutes the list, puts `from` at the raw
\* index `to` had, sets the state order of every listed descriptor to its new raw
\* index, changes no other field of any state, and emits one move event with the
\* raw indices and descriptors of `from` and `to` before the move, and no other event.
C7_Move ==
    [][lastOp'.op = "move" =>
       \A from \in Range(viewDescriptors), to \in Range(viewDescriptors) :
          MoveOp(from, to) =>
             LET fromPos == PositionOf(viewDescriptors, from)
                 toPos == PositionOf(viewDescriptors, to)
             IN /\ Len(viewDescriptors') = Len(viewDescriptors)
                /\ Range(viewDescriptors') = Range(viewDescriptors)
                /\ viewDescriptors'[toPos] = from
                /\ \A i \in 1..Len(viewDescriptors') :
                      viewStates'[viewDescriptors'[i]].order = <<i - 1>>
                /\ DOMAIN viewStates' = DOMAIN viewStates
                /\ \A v \in DOMAIN viewStates :
                      /\ viewStates'[v].visible = viewStates[v].visible
                      /\ viewStates'[v].collapsed = viewStates[v].collapsed
                      /\ viewStates'[v].size = viewStates[v].size
                      /\ v \notin Range(viewDescriptors) => viewStates'[v] = viewStates[v]
                /\ events' = <<[type |-> "move",
                                from |-> [index |-> fromPos - 1, id |-> from],
                                to |-> [index |-> toPos - 1, id |-> to]]>>
      ]_vars

\* a move carried a descriptor across another one, next to a hidden descriptor
C7_Witness ==
    /\ lastOp.op = "move"
    /\ Len(events) = 1
    /\ events[1].from.index + 2 = events[1].to.index
    /\ \E v \in Range(viewDescriptors) : ~viewStates[v].visible

\* the list with the element at 0-based index `from` taken out and put in at index `to`
Relocated(list, from, to) ==
    LET rest == [i \in 1..(Len(list) - 1) |-> IF i <= from THEN list[i] ELSE list[i + 1]]
    IN [i \in 1..Len(list) |->
          IF i <= to THEN rest[i] ELSE IF i = to + 1 THEN list[from + 1] ELSE rest[i - 1]]

\* the list as it was before the move that emitted the event e
BeforeMove(list, e) == Relocated(list, e.to.index, e.from.index)

\* move(B, A) right after a move(A, B) whose A and B were `apart` positions apart
\* gives back the list as it was before move(A, B)
MoveBackRestores(apart) ==
    \A a, b \in Range(viewDescriptors) :
        (/\ lastOp.op = "move"
         /\ Len(events) = 1
         /\ events[1].from.id = a
         /\ events[1].to.id = b
         /\ events[1].from.index - events[1].to.index \in {apart, 0 - apart}
         /\ MoveOp(b, a))
        => viewDescriptors' = BeforeMove(viewDescriptors, events[1])

\* C8 as stated: for listed A and B two positions apart, in either direction,
\* move(A, B) immediately followed by move(B, A) restores the raw order.
C8_MoveBackTwoApart == [][MoveBackRestores(2)]_vars

\* C8 amended: for listed A and B next to each other, in either direction,
\* move(A, B) immediately followed by move(B, A) restores the raw order.
C8_MoveBackAdjacent == [][MoveBackRestores(1)]_vars

DeclaredBefore(a, b) ==
    \/ DeclaredOrder(a) # <<>> /\ DeclaredOrder(b) = <<>>
    \/ DeclaredOrder(a) # <<>> /\ DeclaredOrder(b) # <<>>
         /\ DeclaredOrder(a)[1] < DeclaredOrder(b)[1]
    \/ DeclaredOrder(a) = DeclaredOrder(b) /\ a < b

\* a move onto a neighbour put a list of three, which an earlier move had changed,
\* back into the order it was constructed in
C8_Witness ==
    /\ lastOp.op = "move"
    /\ Len(viewDescriptors) = 3
    /\ Len(events) = 1
    /\ events[1].from.index - events[1].to.index \in {1, -1}
    /\ \A i, j \in 1..3 : i < j => DeclaredBefore(viewDescriptors[i], viewDescriptors[j])

\* C9: a reconcile pass keeps every existing state as it is and gives the default
\* state only to incoming descriptors that have none; no operation changes the state
\* of a descriptor that is outside the list, so a descriptor that comes back has the
\* state it left with; a descriptor whose state is hidden gets no add event.
C9_StatesSurvive ==
    [][/\ lastOp'.op \in ReconcileOps =>
            /\ \A v \in DOMAIN viewStates :
                  v \in DOMAIN viewStates' /\ viewStates'[v] = viewStates[v]
            /\ \A v \in DOMAIN viewStates' \ DOMAIN viewStates :
                  /\ viewStates'[v] = [visible |-> TRUE, collapsed |-> FALSE,
                                       order |-> <<>>, size |-> <<>>]
                  /\ v \in Range(viewDescriptors')
            /\ \A n \in 1..Len(events') :
                  events'[n].type = "add" =>
                     /\ viewStates'[events'[n].id].visible
                     /\ events'[n].collapsed = viewStates'[events'[n].id].collapsed
                     /\ events'[n].size = viewStates'[events'[n].id].size
       /\ \A v \in DOMAIN viewStates :
            v \notin Range(viewDescriptors) =>
               v \in DOMAIN viewStates' /\ viewStates'[v] = viewStates[v]
      ]_vars

\* the only hidden descriptor came back into the list and the pass emitted nothing
C9_Witness ==
    /\ lastOp.op = "context"
    /\ fired = 1
    /\ events = <<>>
    /\ \E v \in Range(viewDescriptors) :
          /\ ~viewStates[v].visible
          /\ \A w \in DOMAIN viewStates : w # v => viewStates[w].visible

\* C10: a model constructed right after saveViewsStates, on the same storage id and
\* workbench state, has for every id that had a state the same visible, collapsed,
\* order and size, registered or not.
C10_PersistedRoundTrip ==
    [][(lastOp.op = "save" /\ lastOp'.op = "construct") =>
          \A v \in DOMAIN viewStates :
              v \in DOMAIN viewStates' /\ viewStates'[v] = viewStates[v]]_vars

\* a model constructed from the store holds the state of a descriptor that is no
\* longer registered: it was deregistered, the states were saved and read back
C10_Witness ==
    /\ lastOp.op = "construct"
    /\ \E v \in DOMAIN viewStates : v \notin Range(registered)

(***************************************************************************)
(* Disposal, the comparator, failed calls, the readers, the store scope    *)
(***************************************************************************)
\* C11: dispose() writes the whole current state map to the store and changes nothing
\* else of the model; while the model stays disposed no registry or context event
\* changes its list, its states or the store or makes it emit an event, so a value
\* in the store is the model's final state map.
C11_DisposeSavesThenReleases ==
    /\ [](disposed => \E s \in Scopes : Deserialize(storage[s], <<>>) = viewStates)
    /\ [][/\ lastOp'.op = "dispose" =>
               /\ storage'[SaveScope(workbenchState)] = Serialize(viewStates)
               /\ UNCHANGED <<viewDescriptors, viewStates, items>>
               /\ disposed'
          /\ (disposed /\ disposed') =>
               /\ UNCHANGED <<viewDescriptors, viewStates, items, contextKeys, storage>>
               /\ events' = <<>>
               /\ fired' = 0
         ]_vars

\* a disposed model, with a state that is not the default one, ignored a registry event
\* that took away one of the descriptors it lists
C11_Witness ==
    /\ disposed
    /\ lastOp.op = "deregister"
    /\ \E v \in Range(viewDescriptors) : v \notin Range(registered)
    /\ \E v \in DOMAIN viewStates : viewStates[v] # DefaultViewState

\* the effective orders of the comparator: a number, or <<>> for +Infinity
EffectiveOrders == {<<>>} \cup {<<n>> : n \in 0..2}

Sign(n) == IF n < 0 THEN -1 ELSE IF n > 0 THEN 1 ELSE 0

\* cmp is a strict total order on the descriptors
StrictTotalOrder(cmp(_, _)) ==
    \A a, b, c \in Ids :
       /\ cmp(a, b) = 0 <=> a = b
       /\ Sign(cmp(a, b)) = 0 - Sign(cmp(b, a))
       /\ (cmp(a, b) < 0 /\ cmp(b, c) < 0) => cmp(a, c) < 0

\* C15: compareViewDescriptors is a strict total order for any fixed state map:
\* zero exactly on equal ids, of opposite sign when the arguments are swapped, and
\* transitive, for every assignment of effective orders (numbers and +Infinity) and
\* for every state map the model comes to hold (the state orders are set by the
\* constructor's caller and by move only); sorting the listed descriptors from any
\* input permutation gives the same sequence, the model's list.
C15_ComparatorTotalOrder ==
    /\ steps = 0 =>
          \A eo \in [Ids -> EffectiveOrders] :
             StrictTotalOrder(LAMBDA a, b : compareOrders(eo[a], a, eo[b], b))
    /\ lastOp.op \in {"construct", "move"} =>
          StrictTotalOrder(LAMBDA a, b : compareViewDescriptors(a, b, viewStates))
    /\ \A p \in Batches(Range(viewDescriptors)) :
          Len(p) = Len(viewDescriptors) => SortViewDescriptors(p, viewStates) = viewDescriptors

\* a move gave every listed descriptor a state order, two of them now rank against
\* their declared orders, and an unlisted descriptor ranks at +Infinity
C15_Witness ==
    /\ lastOp.op = "move"
    /\ Len(viewDescriptors) = 2
    /\ \E v \in Ids : EffectiveOrder(v, viewStates) = <<>>
    /\ \E a, b \in Range(viewDescriptors) :
          /\ DeclaredOrder(a) # <<>> /\ DeclaredOrder(b) # <<>>
          /\ DeclaredOrder(a)[1] < DeclaredOrder(b)[1]
          /\ compareViewDescriptors(a, b, viewStates) > 0

\* C16: a failed call changes nothing.  setVisible, setCollapsed and setSize throw
\* for an id that is not in the list, also when the state map has a state for it;
\* setVisible throws for a view that cannot be toggled; a throwing call changes no
\* state and emits no event.  A setCollapsed or setSize that succeeds changes that
\* one field of that one state and emits no event.
C16_FailedCallsChangeNothing ==
    [][/\ lastOp'.op = "setCollapsed" =>
             \A id \in Ids, collapsed \in BOOLEAN :
                SetCollapsedOp(id, collapsed) =>
                   /\ events' = <<>>
                   /\ viewDescriptors' = viewDescriptors
                   /\ IF id \notin Range(viewDescriptors)
                      THEN lastOp'.threw /\ viewStates' = viewStates
                      ELSE /\ ~lastOp'.threw
                           /\ viewStates' = [viewStates EXCEPT ![id].collapsed = collapsed]
       /\ lastOp'.op = "setSize" =>
             \A id \in Ids, size \in Sizes :
                SetSizeOp(id, size) =>
                   /\ events' = <<>>
                   /\ viewDescriptors' = viewDescriptors
                   /\ IF id \notin Range(viewDescriptors)
                      THEN lastOp'.threw /\ viewStates' = viewStates
                      ELSE /\ ~lastOp'.threw
                           /\ viewStates' = [viewStates EXCEPT ![id].size = <<size>>]
       /\ lastOp'.op = "setVisible" =>
             \A id \in Ids, visible \in BOOLEAN :
                SetVisibleOp(id, visible) =>
                   /\ viewDescriptors' = viewDescriptors
                   /\ lastOp'.threw <=> (id \notin Range(viewDescriptors) \/ ~CanToggleVisibility(id))
                   /\ lastOp'.threw => (viewStates' = viewStates /\ events' = <<>>)
      ]_vars

\* setCollapsed or setSize threw while every descriptor has a state: the id it was
\* called with has a state and is not in the list
C16_Witness ==
    /\ lastOp.op \in {"setCollapsed", "setSize"}
    /\ lastOp.threw
    /\ DOMAIN viewStates = Ids
    /\ Range(viewDescriptors) # Ids

\* the ids with a state in the value the store holds for a scope
StoredIds(stored) == {stored[n].id : n \in 1..Len(stored)}

\* C17: isVisible, isCollapsed and getSize throw exactly for an id without a state,
\* and return the state's value otherwise.  Every descriptor of the list has a state;
\* an id that has a state keeps it (and the readers keep returning its value across
\* reconcile passes) also once its descriptor is deregistered; a constructed model
\* has a state for every id the store held.
C17_ReadersThrowIffNoState ==
    /\ [](/\ \A id \in Ids :
               /\ isVisible(viewStates, id).threw <=> id \notin DOMAIN viewStates
               /\ isCollapsed(viewStates, id).threw <=> id \notin DOMAIN viewStates
               /\ getSize(viewStates, id).threw <=> id \notin DOMAIN viewStates
               /\ id \in DOMAIN viewStates =>
                     /\ isVisible(viewStates, id).value = <<viewStates[id].visible>>
                     /\ isCollapsed(viewStates, id).value = <<viewStates[id].collapsed>>
                     /\ getSize(viewStates, id).value = <<viewStates[id].size>>
          /\ \A v \in Range(viewDescriptors) : ~isVisible(viewStates, v).threw)
    /\ [][\A id \in Ids :
             /\ (lastOp'.op # "construct" /\ ~isVisible(viewStates, id).threw) =>
                   /\ ~isVisible(viewStates', id).threw
                   /\ ~isCollapsed(viewStates', id).threw
                   /\ ~getSize(viewStates', id).threw
                   /\ lastOp'.op \in ReconcileOps =>
                         /\ isVisible(viewStates', id) = isVisible(viewStates, id)
                         /\ isCollapsed(viewStates', id) = isCollapsed(viewStates, id)
                         /\ getSize(viewStates', id) = getSize(viewStates, id)
             /\ (lastOp'.op = "construct" /\ id \in StoredIds(storage[ScopeOf(workbenchState)])) =>
                   /\ ~isVisible(viewStates', id).threw
                   /\ ~getSize(viewStates', id).threw
         ]_vars

\* a deregistered descriptor still has its state, with no size, and another id has none
C17_Witness ==
    /\ lastOp.op = "deregister"
    /\ \E id \in DOMAIN viewStates :
          /\ id \notin Range(registered)
          /\ getSize(viewStates, id) = [threw |-> FALSE, value |-> << <<>> >>]
          /\ ~isVisible(viewStates, id).value[1]
    /\ \E id \in Ids : isCollapsed(viewStates, id).threw

\* C18: saveViewsStates() writes to the scope the constructor read from, whatever
\* happened in between: the value under that scope becomes the serialized state map
\* and the value under the other scope is left alone.
C18_SaveWritesReadScope ==
    [][lastOp'.op = "save" =>
          /\ storage'[readScope] = Serialize(viewStates)
          /\ \A s \in Scopes : s # readScope => storage'[s] = storage[s]]_vars

(***************************************************************************)
(* CommentsModel: grouping and the three phases of an update               *)
(***************************************************************************)
\* the threads of a list that a set of (resource, threadId) pairs names
KeysOf(threads) == {ThreadKey(threads[n]) : n \in 1..Len(threads)}

\* C12: the model holds at most one entry per resource id: no two entries of
\* resourceCommentThreads have the same id, also after an update that adds threads of
\* a resource that has an entry.
C12_OneEntryPerResource ==
    \A i, j \in 1..Len(resourceCommentThreads) :
       i # j => resourceCommentThreads[i].id # resourceCommentThreads[j].id

\* a list without the entries that have no thread left
RECURSIVE WithoutEmptyEntries(_)
WithoutEmptyEntries(list) ==
    IF list = <<>> THEN <<>>
    ELSE IF Head(list).commentThreads = <<>> THEN WithoutEmptyEntries(Tail(list))
    ELSE <<Head(list)>> \o WithoutEmptyEntries(Tail(list))

\* the model without exactly the nodes that the keys name
WithoutThreads(list, keys) ==
    WithoutEmptyEntries(
        [i \in 1..Len(list) |->
            [list[i] EXCEPT !.commentThreads =
                SelectSeq(list[i].commentThreads,
                          LAMBDA node : <<list[i].id, node.threadId>> \notin keys)]])

\* C13: an update that only removes threads of the model deletes exactly the nodes
\* with those thread ids under their resources and no other node, and takes out a
\* resource entry exactly when that leaves it without threads; when the removed
\* threads were all the threads of the model, hasCommentThreads() is false afterwards.
C13_RemoveExactlyThatThread ==
    [][(/\ lastOp'.op = "updateCommentThreads"
        /\ lastOp'.input.removed # <<>>
        /\ lastOp'.input.changed = <<>>
        /\ lastOp'.input.added = <<>>) =>
          /\ ~lastOp'.threw
          /\ resourceCommentThreads'
                = WithoutThreads(resourceCommentThreads, KeysOf(lastOp'.input.removed))
          /\ ThreadKeys(resourceCommentThreads) \subseteq KeysOf(lastOp'.input.removed)
                => ~hasCommentThreads(resourceCommentThreads')
      ]_vars

\* the node the claims expect for a thread: its first comment, the other comments as
\* replies without replies of their own
NodeOf(thread) ==
    [threadId |-> thread.threadId, resource |-> thread.resource,
     comment |-> thread.comments[1], range |-> thread.range,
     replies |-> [n \in 1..(Len(thread.comments) - 1) |->
                     [threadId |-> thread.threadId, resource |-> thread.resource,
                      comment |-> thread.comments[n + 1], range |-> thread.range,
                      replies |-> <<>>]]]

\* the entries the claim expects of setCommentThreads: the resources in ascending
\* order, each with its threads in input order
GroupsOf(threads) ==
    LET resources == Ascending({threads[n].resource : n \in 1..Len(threads)})
    IN [k \in 1..Len(resources) |->
           LET own == SelectSeq(threads, LAMBDA t : t.resource = resources[k])
           IN [id |-> resources[k], resource |-> resources[k],
               commentThreads |-> [n \in 1..Len(own) |-> NodeOf(own[n])]]]

\* C14: setCommentThreads(threads) drops every entry there was and leaves one entry
\* per resource of the threads, in ascending order of the resource; an entry holds
\* one node per thread of its resource, in input order, whose comment is the thread's
\* first comment and whose replies are the other comments in order, as a flat list.
C14_SetCommentThreadsGroups ==
    [][lastOp'.op = "setCommentThreads" =>
          resourceCommentThreads' = GroupsOf(lastOp'.input)]_vars

\* setCommentThreads replaced a model that had entries by the groups of two threads
\* given with the later resource first, one of them with two replies
C14_Witness ==
    /\ lastOp.op = "setCommentThreads"
    /\ steps > 0
    /\ Len(lastOp.input) = 2
    /\ lastOp.input[1].resource > lastOp.input[2].resource
    /\ Len(resourceCommentThreads) = 2
    /\ \E i \in 1..2 : Len(resourceCommentThreads[i].commentThreads[1].replies) = 2

\* the model with the nodes of the changed threads replaced where they are
WithChanged(list, changed) ==
    [i \in 1..Len(list) |->
        [list[i] EXCEPT !.commentThreads =
            [j \in 1..Len(list[i].commentThreads) |->
                LET key == <<list[i].id, list[i].commentThreads[j].threadId>>
                IN IF key \in KeysOf(changed)
                   THEN NodeOf(CHOOSE t \in Range(changed) : ThreadKey(t) = key)
                   ELSE list[i].commentThreads[j]]]]

\* C19: an update that only changes threads of the model replaces exactly their nodes,
\* each at its position, by the node built from the new thread data; the entries,
\* their order, the threads of each entry and every other node stay as they are.
C19_ChangeReplacesInPlace ==
    [][(/\ lastOp'.op = "updateCommentThreads"
        /\ lastOp'.input.changed # <<>>
        /\ lastOp'.input.removed = <<>>
        /\ lastOp'.input.added = <<>>) =>
          /\ ~lastOp'.threw
          /\ resourceCommentThreads'
                = WithChanged(resourceCommentThreads, lastOp'.input.changed)
      ]_vars

\* an event with one of the three lists of an event, the other two empty
OnlyRemoved(event) == [removed |-> event.removed, changed |-> <<>>, added |-> <<>>]
OnlyChanged(event) == [removed |-> <<>>, changed |-> event.changed, added |-> <<>>]
OnlyAdded(event) == [removed |-> <<>>, changed |-> <<>>, added |-> event.added]

\* C20: one updateCommentThreads call does what three calls do, the first with the
\* removed threads only, the second with the changed ones, the third with the added
\* ones; a thread that the event both removes and adds is in the model afterwards
\* with the added content.
C20_PhasesInOrder ==
    [][lastOp'.op = "updateCommentThreads" =>
          LET event == lastOp'.input
              afterRemoved == updateCommentThreads(resourceCommentThreads, OnlyRemoved(event)).list
              afterChanged == updateCommentThreads(afterRemoved, OnlyChanged(event)).list
              afterAdded == updateCommentThreads(afterChanged, OnlyAdded(event)).list
          IN /\ resourceCommentThreads' = afterAdded
             /\ \A n \in 1..Len(event.added) :
                   ThreadKey(event.added[n]) \in KeysOf(event.removed) =>
                      \E i \in 1..Len(resourceCommentThreads') :
                         /\ resourceCommentThreads'[i].id = event.added[n].resource
                         /\ NodeOf(event.added[n])
                               \in Range(resourceCommentThreads'[i].commentThreads)
      ]_vars

\* an update removed a thread and added it again with other comments
C20_Witness ==
    /\ lastOp.op = "updateCommentThreads"
    /\ \E i \in DOMAIN lastOp.input.removed, j \in DOMAIN lastOp.input.added :
          /\ ThreadKey(lastOp.input.removed[i]) = ThreadKey(lastOp.input.added[j])
          /\ lastOp.input.removed[i].comments # lastOp.input.added[j].comments

\* C21: after any sequence of setCommentThreads and updateCommentThreads calls that respect
\* referential integrity no resource entry has an empty commentThreads list, so
\* hasCommentThreads() is true iff the model holds at least one thread, and getMessage()
\* returns the non-empty empty-state text iff hasCommentThreads() is false
C21_NoEmptyEntry ==
    /\ \A i \in 1..Len(resourceCommentThreads) :
          resourceCommentThreads[i].commentThreads # <<>>
    /\ hasCommentThreads(resourceCommentThreads) <=> ThreadKeys(resourceCommentThreads) # {}
    /\ getMessage(resourceCommentThreads) # "" <=> ~hasCommentThreads(resourceCommentThreads)
    /\ getMessage(resourceCommentThreads) \in {"", NoCommentsMessage}

\* an update removed the last thread of the last resource entry and added nothing
C21_Witness ==
    /\ lastOp.op = "updateCommentThreads"
    /\ ~lastOp.threw
    /\ Len(lastOp.input.removed) = 1
    /\ lastOp.input.added = <<>>
    /\ resourceCommentThreads = <<>>
    /\ getMessage(resourceCommentThreads) = NoCommentsMessage

\* the events are one add per visible descriptor of the list, in the list's order, the
\* n-th of them (from 0) with index n, carrying the descriptor's stored size and collapsed
AddsOfVisible(evs, list, states) ==
    LET visible == VisibleOf(list, states)
    IN /\ Len(evs) = Len(visible)
       /\ \A n \in 1..Len(evs) :
             evs[n] = AddEvent(n - 1, visible[n], states[visible[n]])

\* the ids are in ascending canonical order under the states
CanonicallySorted(list, states) ==
    \A i, j \in 1..Len(list) : i < j => compareViewDescriptors(list[i], list[j], states) < 0

\* C22: when a batch of descriptors becomes active in a model whose list is empty, the
\* reconcile emits add events in canonical sort order (not registration order), one per
\* descriptor whose state is visible, with indices 0, 1, 2, ... counting only the visible
\* ones; v1 (order 2) and v2 (order 1), neither with a state yet, registered together
\* give add(v2, 0) then add(v1, 1)
C22_BatchIntoEmptyList ==
    /\ [](steps = 0 => /\ AddsOfVisible(events, viewDescriptors, viewStates)
                       /\ CanonicallySorted(viewDescriptors, viewStates))
    /\ [][(lastOp'.op \in {"register", "context"} /\ viewDescriptors = <<>> /\ fired' >= 1) =>
            /\ Range(viewDescriptors') =
                  {items'[n].id : n \in {m \in 1..Len(items') : items'[m].active}}
            /\ viewDescriptors' # <<>>
            /\ CanonicallySorted(viewDescriptors', viewStates')
            /\ AddsOfVisible(events', viewDescriptors', viewStates')
            /\ (lastOp'.op = "register" /\ registered = <<>> /\ registered' = <<1, 2>>
                   /\ context = {1, 2} /\ DOMAIN viewStates = {}) =>
                  /\ events'[1].id = 2 /\ events'[1].index = 0
                  /\ events'[2].id = 1 /\ events'[2].index = 1
      ]_vars

\* v1 (order 2) and v2 (order 1) were registered together, v1 first, into an empty model
C22_Witness ==
    /\ lastOp.op = "register"
    /\ registered = <<1, 2>>
    /\ fired = 1
    /\ Len(events) = 2
    /\ events[1].type = "add" /\ events[1].id = 2 /\ events[1].index = 0
    /\ events[2].type = "add" /\ events[2].id = 1 /\ events[2].index = 1

\* a batch became active in an empty model while the state of one of its descriptors,
\* ranked before a visible one, was hidden
C22_HiddenSkipped ==
    /\ lastOp.op \in {"register", "context"}
    /\ Len(events) = 1
    /\ events[1].type = "add"
    /\ events[1].index = 0
    /\ Len(viewDescriptors) = 2
    /\ viewDescriptors[2] = events[1].id

\* the number of times the `when` expressions of the held items refer to the key k
References(its, k) ==
    Cardinality({<<n, i>> \in (1..Len(its)) \X (1..(2 * Cardinality(Keys))) :
                    /\ When(its[n].id) # <<>>
                    /\ i \in DOMAIN ExprKeys(When(its[n].id)[1])
                    /\ ExprKeys(When(its[n].id)[1])[i] = k})

\* C23: after any sequence of register and deregister batches contextKeys contains a key
\* iff a descriptor held in items has a `when` referring to it, its count being the number
\* of such references: deregistering one of two descriptors that share a key keeps the
\* key, deregistering the last one drops it, deregistering a descriptor that is not held
\* changes no count; so a context change to a key a held descriptor refers to passes the
\* affectsSome filter and the handler re-evaluates every item
C23_ContextKeysCounted ==
    /\ [](/\ \A k \in Keys : CounterSetHas(contextKeys, k) <=> References(items, k) > 0
          /\ \A k \in Keys : CounterSetGet(contextKeys, k) = References(items, k))
    /\ [][/\ (lastOp'.op = "deregister" /\ ItemIds(items') = ItemIds(items)) =>
               contextKeys' = contextKeys
          /\ (/\ lastOp'.op = "context"
              /\ \E k \in (context \ context') \cup (context' \ context) :
                    References(items, k) > 0) =>
               \A n \in 1..Len(items') :
                  items'[n].active = WhenHolds(items'[n].id, context')
      ]_vars

\* v2 and v3 share the key 1; v2, listed and visible, was deregistered while v3 stays
\* held: the key 1 is kept with count 1 and the key 2 is dropped
C23_Witness ==
    /\ lastOp.op = "deregister"
    /\ \E n \in 1..Len(events) : events[n].type = "remove" /\ events[n].id = 2
    /\ 3 \in ItemIds(items)
    /\ 2 \notin ItemIds(items)
    /\ CounterSetGet(contextKeys, 1) = 1
    /\ ~CounterSetHas(contextKeys, 2)

\* no two views of a location have the same id
UniqueIds(registry) ==
    \A location \in ViewLocations :
       \A i, j \in 1..Len(registry[location]) :
          i # j => registry[location][i] # registry[location][j]

\* the location a contribution under the key goes to: the requested container, or
\* Explorer when the container does not exist
TargetLocation(key) ==
    CASE key = "explorer" -> "Explorer"
      [] key = "scm" -> "SCM"
      [] key = "c" -> "workbench.view.extension.c"
      [] OTHER -> "Explorer"

RECURSIVE Flatten(_)
Flatten(batches) == IF batches = <<>> THEN <<>> ELSE Head(batches) \o Flatten(Tail(batches))

\* C24: the handler never passes to ViewsRegistry.registerViews a descriptor whose id is
\* the id of an earlier item of the same contribution entry or of a view already
\* registered in the target location (the requested container, or Explorer when the
\* container does not exist); such items are dropped with an error while the remaining
\* items of the entry are registered, so the ids stay unique within a location
C24_NoDuplicateRegistered ==
    /\ []UniqueIds(views)
    /\ [][lastOp'.op = "contribute" =>
            LET valid == SelectSeq(lastOp'.input, LAMBDA e : e.isArray)
                passed == lastOp'.passed
            IN /\ Len(passed) = Len(valid)
               /\ views' = registerViews(views, Flatten(passed))
               /\ \A m \in 1..Len(valid) :
                     LET e == valid[m]
                         location == TargetLocation(e.key)
                         before == registerViews(views, Flatten(SubSeq(passed, 1, m - 1)))
                         keep == {i \in DOMAIN e.value :
                                     /\ e.value[i] \notin Range(before[location])
                                     /\ \A j \in 1..(i - 1) : e.value[j] # e.value[i]}
                         kept == Ascending(keep)
                     IN /\ \A n \in 1..Len(passed[m]) :
                              /\ passed[m][n].location = location
                              /\ passed[m][n].id \notin Range(before[location])
                              /\ \A k \in 1..(n - 1) : passed[m][k].id # passed[m][n].id
                        /\ passed[m] = [n \in 1..Len(kept) |->
                                          [id |-> e.value[kept[n]], location |-> location]]
                        /\ \A i \in DOMAIN e.value \ keep :
                              \E n \in 1..Len(lastOp'.messages) :
                                 /\ lastOp'.messages[n].severity = "error"
                                 /\ lastOp'.messages[n].id = e.value[i]
                                 /\ lastOp'.messages[n].location = location
      ]_vars

\* an entry for the missing container `x` listed v2, v2 again and v1 while Explorer held
\* v1: the first v2 was registered in Explorer, the other two items were dropped
C24_Witness ==
    /\ lastOp.op = "contribute"
    /\ lastOp.input = <<[key |-> "x", isArray |-> TRUE, value |-> <<2, 2, 1>>]>>
    /\ views["Explorer"] = <<1, 2>>
    /\ lastOp.passed = <<(<<[id |-> 2, location |-> "Explorer"]>>)>>
    /\ \E n \in 1..Len(lastOp.messages) :
          lastOp.messages[n] = Message("error", "duplicateView1", 2, "Explorer")
    /\ \E n \in 1..Len(lastOp.messages) :
          lastOp.messages[n] = Message("error", "duplicateView2", 1, "Explorer")

\* the count a map stores for a key, 0 when it stores none
StoredCount(map, k) == IF k \in DOMAIN map THEN map[k] ELSE 0

\* the calls of the log of the given type on the key k that returned `result`
CallsOf(log, type, k, result) ==
    Cardinality({n \in 1..Len(log) :
                    log[n].type = type /\ log[n].value = k /\ log[n].result = result})

\* C25: CounterSet is a reference-counting multiset for every sequence of add and delete
\* calls: add(k) raises k's count by one; delete(k) returns true and lowers the count by
\* one when it was positive, returns false and changes nothing when k is absent; has(k) is
\* true iff k's count is positive, i.e. iff the adds of k exceed its successful deletes;
\* the map never stores a count of zero or less
C25_CounterSetCounts ==
    /\ [](/\ \A k \in DOMAIN contextKeys : contextKeys[k] >= 1
          /\ \A k \in Keys :
                /\ StoredCount(contextKeys, k)
                      = CallsOf(events, "add", k, TRUE) - CallsOf(events, "delete", k, TRUE)
                /\ CounterSetHas(contextKeys, k) <=>
                      CallsOf(events, "add", k, TRUE) > CallsOf(events, "delete", k, TRUE))
    /\ [][LET k == lastOp'.input
              others == \A o \in Keys \ {k} :
                           StoredCount(contextKeys', o) = StoredCount(contextKeys, o)
          IN /\ lastOp'.op = "add" =>
                  /\ StoredCount(contextKeys', k) = StoredCount(contextKeys, k) + 1
                  /\ others
             /\ lastOp'.op = "delete" =>
                  /\ lastOp'.result = (StoredCount(contextKeys, k) > 0)
                  /\ lastOp'.result =>
                        StoredCount(contextKeys', k) = StoredCount(contextKeys, k) - 1
                  /\ ~lastOp'.result => contextKeys' = contextKeys
                  /\ others
             /\ lastOp'.op = "has" =>
                  /\ lastOp'.result = (StoredCount(contextKeys, k) > 0)
                  /\ contextKeys' = contextKeys
      ]_vars

\* the key 1 was added twice and deleted once: delete returned true and the key is still
\* in the set, with count 1
C25_Witness ==
    /\ lastOp = CounterSetCalled("delete", 1, TRUE)
    /\ CallsOf(events, "add", 1, TRUE) = 2
    /\ CounterSetHas(contextKeys, 1)
    /\ StoredCount(contextKeys, 1) = 1

====
